---- MODULE Spec2Model ----
(***************************************************************************)
(* Model of voice_tracker_bot.py: the presence ledger (sessions, totals,   *)
(* bounded history), the durable store (safe_write_json / safe_read_json), *)
(* the query commands and the background stay worker.                      *)
(*                                                                         *)
(* Time: datetime.now().timestamp() is a float.  The model keeps the clock *)
(* in ticks, TicksPerSec ticks to the second, so that int(end - start)     *)
(* truncates as it does in the code.  The clock never runs backwards.      *)
(***************************************************************************)
EXTENDS Integers, Sequences, FiniteSets, TLC

\* ---------------------------------------------------------------- bounds
MaxUsers == 2
MaxClock == 2
TicksPerSec == 2
MaxEvents == 3
MaxHistCfg == 1
MaxWriters == 2
MaxDocs == 1
MaxGuilds == 2
MaxChannels == 2
MaxCmds == 1

\* ------------------------------------------------------ program constants
DefaultMaxHistory == 2000
LeaderboardMax == 25
HistoryQueryMax == 50

None == "None"
\* None where a timestamp is expected (timestamps are never negative).
NoTs == 0 - 1
Users == 1..MaxUsers
ChannelSeq == <<"X", "Y">>
Channels == {ChannelSeq[i] : i \in 1..Len(ChannelSeq)}

\* The instants at which the environment lets something happen.
Times == 0..MaxClock
\* The instants of the join / move / leave scenario: 0 s, 10 s and 25 s.
RestartTimes == 1..(1 + 2 * TicksPerSec)
PersistTimes == {1 + k * TicksPerSec : k \in 0..2}
ScenarioTimes == {0, 10 * TicksPerSec, 25 * TicksPerSec}

VARIABLES
    clock,          \* wall clock, in ticks
    MAX_HISTORY,    \* configured at import (line 42)
    ready,          \* on_ready has run at least once
    chan,           \* platform: the channel each user is in, or None
    voice_history,  \* list of log lines
    user_totals,    \* dict str(user_id) -> seconds, in insertion order
    user_sessions,  \* dict user_id -> start timestamp, in insertion order
    persistent_stays, \* dict guild_id -> channel_id, in insertion order
    disk,           \* the three documents under DATA_DIR
    sent,           \* the last message a command sent to its channel
    refStart,       \* reference ledger: start of each user's open session
    refTotal,       \* reference ledger: loaded total plus closed durations
    evlog,          \* the presence events handled since import
    \* --- safe_write_json, step by step
    tmp,            \* the "<path>.tmp" file of each document
    writers,        \* each safe_write_json call: where it is, path and data
    lockHolder,     \* the call holding _file_lock, or NoWriter
    crashed,        \* the process was killed
    saved,          \* the last content completely saved to each document
    \* --- platform state seen by the stay worker
    visible,        \* guilds bot.get_guild finds
    existing,       \* channels guild.get_channel finds
    vc,             \* the channel the bot's voice client of each guild is
                    \* connected to, or NoChannel
    \* --- stay_worker
    wpc,            \* where the worker is
    wsnap,          \* the rest of list(persistent_stays.items())
    wcall,          \* the call the worker awaits
    passSnapshot,   \* the directives the current pass started with
    passLog,        \* what the pass found and decided for each directive
    issued,         \* connect / move / disconnect calls issued in the pass
    passWrites,     \* documents handed to safe_write_json in the pass
    \* --- stay commands
    cmd,            \* the stay command being handled and where it is
    ncmd            \* stay commands received so far

ledgerVars == <<clock, MAX_HISTORY, ready, chan, voice_history, user_totals,
                user_sessions, persistent_stays, disk, sent,
                refStart, refTotal, evlog>>
memVars == <<clock, MAX_HISTORY, ready, chan, voice_history, user_totals,
             user_sessions, sent, refStart, refTotal, evlog>>
storeVars == <<tmp, writers, lockHolder, crashed, saved>>
platformVars == <<visible, existing, vc>>
workerVars == <<wpc, wsnap, wcall, passSnapshot, passLog, issued, passWrites>>
cmdVars == <<cmd, ncmd>>
stayVars == <<platformVars, workerVars, cmdVars>>

vars == <<ledgerVars, storeVars, stayVars>>

\* ------------------------------------------------- Python dict, in order
\* A dict is a sequence of <<key, value>> pairs with distinct keys, in
\* insertion order (Python 3.7+).
EmptyDict == <<>>
DictKeys(d) == {d[i][1] : i \in 1..Len(d)}
DictHas(d, k) == \E i \in 1..Len(d) : d[i][1] = k
DictIdx(d, k) == CHOOSE i \in 1..Len(d) : d[i][1] = k
DictGet(d, k, default) == IF DictHas(d, k) THEN d[DictIdx(d, k)][2] ELSE default
DictSet(d, k, v) ==
    IF DictHas(d, k) THEN [d EXCEPT ![DictIdx(d, k)] = <<k, v>>]
    ELSE Append(d, <<k, v>>)
DictPop(d, k) == SelectSeq(d, LAMBDA e : e[1] # k)

\* str(user_id) and int(uid_str)
Str(n) == ToString(n)
IsIntStr(s) == \E n \in 0..(LeaderboardMax + 1) : ToString(n) = s
IntOf(s) == CHOOSE n \in 0..(LeaderboardMax + 1) : ToString(n) = s

\* int(x) of a float x given in ticks: truncation toward zero, in seconds.
IntSeconds(ticks) ==
    IF ticks >= 0 THEN ticks \div TicksPerSec ELSE -((-ticks) \div TicksPerSec)

\* ts(): the clock formatted to the second.
Ts(now) == now \div TicksPerSec

\* fmt_duration: "{h}h {m}m {s}s", "{m}m {s}s" or "{s}s".
fmt_duration(sec) ==
    LET m0 == sec \div 60
        s  == sec % 60
        h  == m0 \div 60
        m  == m0 % 60
    IN  IF h # 0 THEN <<h, "h", m, "m", s, "s">>
        ELSE IF m # 0 THEN <<m, "m", s, "s">>
        ELSE <<s, "s">>

\* Python truthiness of `start` in `if start:` : None and 0.0 are falsy.
Truthy(start) == start # NoTs /\ start # 0

\* lst[-n:] for a list lst and an int n.
SliceLast(lst, n) ==
    IF n = 0 THEN lst
    ELSE IF n > 0 THEN
        IF n >= Len(lst) THEN lst ELSE SubSeq(lst, Len(lst) - n + 1, Len(lst))
    ELSE SubSeq(lst, (-n) + 1, Len(lst))

\* ------------------------------------------------------- durable store
Absent == [kind |-> "absent"]
Corrupt == [kind |-> "corrupt"]
Doc(d) == [kind |-> "doc", doc |-> d]

\* A reader that ignores the file: C7 must tell it from safe_read_json.
ReadAlwaysDefault(file, default) == default

\* safe_read_json: the parsed document, or default when the file is absent
\* or fails to parse.
safe_read_json(file, default) ==
    IF file.kind = "doc" THEN file.doc ELSE default

\* safe_write_json seen from the caller: the target holds the new document
\* when the call succeeds and is untouched when it raises.
WriteOutcome(file, data, ok) == IF ok THEN Doc(data) ELSE file

\* {str(k): v for k, v in persistent_stays.items()}
StaysDoc(stays) == [i \in 1..Len(stays) |-> <<Str(stays[i][1]), stays[i][2]>>]
\* {int(k): int(v) for k, v in raw.items()}
StaysFromDoc(raw) == [i \in 1..Len(raw) |-> <<IntOf(raw[i][1]), raw[i][2]>>]

\* A persist_all that writes nothing: C14 must tell it from persist_all.
PersistNothing(d, hist, totals, stays, okH, okT, okS) == d

\* persist_all: gather() of three writes; each succeeds or raises by itself.
persist_all(d, hist, totals, stays, okH, okT, okS) ==
    [history |-> WriteOutcome(d.history, hist, okH),
     totals  |-> WriteOutcome(d.totals, totals, okT),
     stays   |-> WriteOutcome(d.stays, StaysDoc(stays), okS)]

\* ------------------------------------------------------ presence ledger
\* record_session_end: the duration and the totals after adding it.
SessionDur(start_ts, end_ts) == IntSeconds(end_ts - start_ts)
record_session_end(totals, user_id, start_ts, end_ts) ==
    DictSet(totals, Str(user_id),
            DictGet(totals, Str(user_id), 0) + SessionDur(start_ts, end_ts))

NoDur == <<>>
\* log_line = None: no branch of the handler matched.
NoLine == [kind |-> None]
LogLine(now, kind, member, src, dst, dur_text) ==
    [ts |-> Ts(now), kind |-> kind, who |-> member, src |-> src, dst |-> dst,
     dur |-> dur_text]

\* voice_history.append(log_line) followed by the trim.
AppendTrim(hist, line, maxh) ==
    LET h == Append(hist, line)
    IN  IF Len(h) > maxh THEN SliceLast(h, maxh) ELSE h

\* A handler without the `before.channel.id != after.channel.id` test, for
\* which a notification within one channel is a MOVE: C16 must tell it from
\* Transition.
TransitionAnyChange(member, before, after, now_ts, sessions, totals) ==
    LET start == DictGet(sessions, member, NoTs)
    IN  IF before = None /\ after # None THEN
            [sessions |-> DictSet(sessions, member, now_ts),
             totals   |-> totals,
             line     |-> [ts |-> now_ts, kind |-> "JOIN", who |-> member,
                           src |-> None, dst |-> after, dur |-> <<>>]]
        ELSE IF before # None /\ after = None THEN
            [sessions |-> DictPop(sessions, member),
             totals   |-> totals,
             line     |-> [ts |-> now_ts, kind |-> "LEAVE", who |-> member,
                           src |-> before, dst |-> None, dur |-> <<>>]]
        ELSE IF before # None /\ after # None THEN
            [sessions |-> DictSet(sessions, member, now_ts),
             totals   |-> totals,
             line     |-> [ts |-> now_ts, kind |-> "MOVE", who |-> member,
                           src |-> before, dst |-> after, dur |-> <<>>]]
        ELSE [sessions |-> sessions, totals |-> totals, line |-> NoLine]

\* The in-memory effect of on_voice_state_update for a non-bot member:
\* the new sessions, the new totals and the log line (None when no branch
\* matches).
Transition(member, before, after, now_ts, sessions, totals) ==
    LET start == DictGet(sessions, member, NoTs)
        dur   == SessionDur(start, now_ts)
    IN  IF before = None /\ after # None THEN
            [sessions |-> DictSet(sessions, member, now_ts),
             totals   |-> totals,
             line     |-> LogLine(now_ts, "JOIN", member, None, after, NoDur)]
        ELSE IF before # None /\ after = None THEN
            [sessions |-> DictPop(sessions, member),
             totals   |-> IF Truthy(start)
                          THEN record_session_end(totals, member, start, now_ts)
                          ELSE totals,
             line     |-> LogLine(now_ts, "LEAVE", member, before, None,
                                  IF Truthy(start) THEN fmt_duration(dur) ELSE NoDur)]
        ELSE IF before # None /\ after # None /\ before # after THEN
            [sessions |-> DictSet(sessions, member, now_ts),
             totals   |-> IF Truthy(start)
                          THEN record_session_end(totals, member, start, now_ts)
                          ELSE totals,
             line     |-> LogLine(now_ts, "MOVE", member, before, after,
                                  IF Truthy(start) THEN fmt_duration(dur) ELSE NoDur)]
        ELSE [sessions |-> sessions, totals |-> totals, line |-> NoLine]

\* An entry of the log of handled events; who = 0 stands for on_ready.
Event(who, src, dst, at) == [who |-> who, src |-> src, dst |-> dst, at |-> at]

\* The reference ledger of the data model: a session is open exactly while
\* the user is in a channel; closing it adds its whole seconds to the total.
RefClose(total, start, now_ts) ==
    IF start = NoTs THEN total ELSE total + IntSeconds(now_ts - start)


\* on_voice_state_update(member, before, after), member not a bot, with the
\* platform moving the member from `before` to `after`; okH, okT and okS
\* tell which of the three writes of persist_all succeed.
VoiceStateUpdate(member, after, okH, okT, okS) ==
    LET before == chan[member]
        r == Transition(member, before, after, clock, user_sessions, user_totals)
    IN  /\ before # after
        /\ Len(evlog) < MaxEvents
        /\ chan' = [chan EXCEPT ![member] = after]
        /\ user_sessions' = r.sessions
        /\ user_totals' = r.totals
        /\ voice_history' = AppendTrim(voice_history, r.line, MAX_HISTORY)
        /\ disk' = persist_all(disk, voice_history', user_totals',
                                persistent_stays, okH, okT, okS)
        /\ refTotal' = [refTotal EXCEPT ![member] =
                           IF before # None THEN RefClose(@, refStart[member], clock)
                           ELSE @]
        /\ refStart' = [refStart EXCEPT ![member] =
                           IF after # None THEN clock ELSE NoTs]
        /\ sent' = [cmd |-> "log", line |-> r.line,
                    warn |-> ~(okH /\ okT /\ okS)]
        /\ evlog' = Append(evlog, Event(member, before, after, clock))
        /\ UNCHANGED <<clock, MAX_HISTORY, ready, persistent_stays>>
        /\ UNCHANGED <<storeVars, stayVars>>

\* on_voice_state_update for a notification that is no transition of a
\* tracked user: the member is a bot (return at line 170), or the channel
\* is the same before and after (mute, deafen...).  The bot flag is checked
\* first; otherwise the branches are tried and a log line, if any, is
\* appended and persisted.
BotUser == MaxUsers + 1

VoiceStateNotice(member, before, after) ==
    LET isBot == member = BotUser
        r == IF isBot
             THEN [sessions |-> user_sessions, totals |-> user_totals, line |-> NoLine]
             ELSE Transition(member, before, after, clock, user_sessions, user_totals)
    IN  /\ Len(evlog) < MaxEvents
        /\ IF isBot THEN TRUE ELSE before = chan[member] /\ after = before
        /\ user_sessions' = r.sessions
        /\ user_totals' = r.totals
        /\ voice_history' = IF r.line = NoLine THEN voice_history
                            ELSE AppendTrim(voice_history, r.line, MAX_HISTORY)
        /\ disk' = IF r.line = NoLine THEN disk
                   ELSE persist_all(disk, voice_history', user_totals',
                                    persistent_stays, TRUE, TRUE, TRUE)
        /\ sent' = IF r.line = NoLine THEN sent
                   ELSE [cmd |-> "log", line |-> r.line, warn |-> FALSE]
        /\ evlog' = Append(evlog, Event(member, before, after, clock))
        /\ UNCHANGED <<clock, MAX_HISTORY, ready, chan, persistent_stays,
                       refStart, refTotal>>
        /\ UNCHANGED <<storeVars, stayVars>>

\* Members found in voice channels at on_ready, channel by channel.
RECURSIVE MembersOf(_, _)
MembersOf(c, n) ==
    IF n = 0 THEN <<>>
    ELSE MembersOf(c, n - 1) \o (IF chan[n] = c THEN <<n>> ELSE <<>>)

RECURSIVE ConnectedMembers(_)
ConnectedMembers(i) ==
    IF i = 0 THEN <<>>
    ELSE ConnectedMembers(i - 1) \o MembersOf(ChannelSeq[i], MaxUsers)

RECURSIVE RebuildSessions(_, _, _)
RebuildSessions(sessions, members, now_ts) ==
    IF members = <<>> THEN sessions
    ELSE RebuildSessions(
            IF DictHas(sessions, Head(members)) THEN sessions
            ELSE DictSet(sessions, Head(members), now_ts),
            Tail(members), now_ts)

\* on_ready: load the three documents, then open a session for every
\* member already connected that has none.
OnReady ==
    LET raw == safe_read_json(disk.stays, EmptyDict)
        loaded == safe_read_json(disk.totals, EmptyDict)
    IN  /\ Len(evlog) < MaxEvents
        /\ voice_history' = safe_read_json(disk.history, <<>>)
        /\ user_totals' = loaded
        /\ persistent_stays' = StaysFromDoc(raw)
        /\ user_sessions' = RebuildSessions(user_sessions,
                                ConnectedMembers(Len(ChannelSeq)), clock)
        /\ ready' = TRUE
        /\ refTotal' = [u \in Users |-> DictGet(loaded, Str(u), 0)]
        /\ refStart' = [u \in Users |->
                           IF chan[u] # None /\ refStart[u] = NoTs
                           THEN clock ELSE refStart[u]]
        /\ sent' = [cmd |-> "started", active |-> Len(user_sessions')]
        /\ evlog' = Append(evlog, Event(0, None, None, clock))
        /\ UNCHANGED <<clock, MAX_HISTORY, chan, disk>>
        /\ UNCHANGED <<storeVars, stayVars>>

\* The wall clock advances.
Tick(instants) ==
    /\ \E t \in instants : t > clock /\ clock' = t
    /\ UNCHANGED <<MAX_HISTORY, ready, chan, voice_history, user_totals,
                   user_sessions, persistent_stays, disk, sent,
                   refStart, refTotal, evlog>>
    /\ UNCHANGED <<storeVars, stayVars>>

NoMessage == [cmd |-> "none"]

\* The process stops and is started again: the module state is what the
\* import leaves (lines 56-59), the documents on disk stay, and on_ready has
\* not run yet.  The users stay where they are.
ProcessRestart ==
    /\ Len(evlog) < MaxEvents
    /\ voice_history' = <<>>
    /\ user_totals' = EmptyDict
    /\ user_sessions' = EmptyDict
    /\ persistent_stays' = EmptyDict
    /\ ready' = FALSE
    /\ sent' = NoMessage
    /\ refStart' = [u \in Users |-> NoTs]
    /\ refTotal' = [u \in Users |-> 0]
    /\ evlog' = Append(evlog, Event(0, "STOP", None, clock))
    /\ UNCHANGED <<clock, MAX_HISTORY, chan, disk>>
    /\ UNCHANGED <<storeVars, stayVars>>

\* ------------------------------------------------------------- queries

\* A total that ignores the open session: C4 must tell it from StatsTotal.
StatsTotalStoredOnly(member, totals, sessions, now) ==
    DictGet(totals, Str(member), 0)

\* vcstats: stored total plus the elapsed whole seconds of an open session.
StatsTotal(member, totals, sessions, now) ==
    LET total == DictGet(totals, Str(member), 0)
    IN  IF DictHas(sessions, member)
        THEN total + IntSeconds(now - DictGet(sessions, member, NoTs))
        ELSE total

vcstats_cmd(member) ==
    /\ sent' = [cmd |-> "vcstats", member |-> member,
                text |-> fmt_duration(StatsTotal(member, user_totals,
                                                 user_sessions, clock))]
    /\ UNCHANGED <<clock, MAX_HISTORY, ready, chan, voice_history, user_totals,
                   user_sessions, persistent_stays, disk,
                   refStart, refTotal, evlog>>
    /\ UNCHANGED <<storeVars, stayVars>>

\* vcleaderboard: `combined` starts with the stored totals whose key parses
\* as an int, in the order of user_totals ...
RECURSIVE CombinedFromTotals(_, _)
CombinedFromTotals(combined, totals) ==
    IF totals = <<>> THEN combined
    ELSE CombinedFromTotals(
            IF IsIntStr(Head(totals)[1])
            THEN DictSet(combined, IntOf(Head(totals)[1]), Head(totals)[2])
            ELSE combined,
            Tail(totals))

\* ... then adds the elapsed whole seconds of every open session.
RECURSIVE AddLive(_, _, _)
AddLive(combined, sessions, now) ==
    IF sessions = <<>> THEN combined
    ELSE AddLive(
            DictSet(combined, Head(sessions)[1],
                    DictGet(combined, Head(sessions)[1], 0)
                        + IntSeconds(now - Head(sessions)[2])),
            Tail(sessions), now)

\* An insertion that puts a later item before its equals (an unstable
\* sort): C5 must tell it from InsertDesc.
RECURSIVE InsertDescStrict(_, _)
InsertDescStrict(sorted, item) ==
    IF sorted = <<>> THEN <<item>>
    ELSE IF Head(sorted)[2] > item[2]
         THEN <<Head(sorted)>> \o InsertDescStrict(Tail(sorted), item)
         ELSE <<item>> \o sorted

\* sorted(items, key=value, reverse=True): stable, largest value first.
RECURSIVE InsertDesc(_, _)
InsertDesc(sorted, item) ==
    IF sorted = <<>> THEN <<item>>
    ELSE IF Head(sorted)[2] >= item[2]
         THEN <<Head(sorted)>> \o InsertDesc(Tail(sorted), item)
         ELSE <<item>> \o sorted

RECURSIVE SortedDesc(_)
SortedDesc(items) ==
    IF items = <<>> THEN <<>>
    ELSE InsertDesc(SortedDesc(SubSeq(items, 1, Len(items) - 1)), items[Len(items)])

\* max(1, min(top, 25))
ClampTop(top) ==
    LET lo == IF top < LeaderboardMax THEN top ELSE LeaderboardMax
    IN  IF lo > 1 THEN lo ELSE 1

\* items[:top]
FirstN(items, n) == IF n >= Len(items) THEN items ELSE SubSeq(items, 1, n)

Leaderboard(top, totals, sessions, now) ==
    LET combined == AddLive(CombinedFromTotals(EmptyDict, totals), sessions, now)
        items == FirstN(SortedDesc(combined), ClampTop(top))
    IN  [i \in 1..Len(items) |->
            [rank |-> i, uid |-> items[i][1], secs |-> items[i][2],
             text |-> fmt_duration(items[i][2]),
             live |-> DictHas(sessions, items[i][1])]]

\* The limits a user may type.
TopInputs == {0, 2, LeaderboardMax + 5}

vcleaderboard_cmd(top) ==
    /\ sent' = [cmd |-> "vcleaderboard", top |-> top,
                lines |-> Leaderboard(top, user_totals, user_sessions, clock)]
    /\ UNCHANGED <<clock, MAX_HISTORY, ready, chan, voice_history, user_totals,
                   user_sessions, persistent_stays, disk,
                   refStart, refTotal, evlog>>
    /\ UNCHANGED <<storeVars, stayVars>>

\* ------------------------------------- safe_write_json, step by step
\* A call of safe_write_json(path, data): it waits for _file_lock, opens
\* "<path>.tmp" for writing, dumps the document, closes the file, renames
\* it over the target and releases the lock.  The process may be killed
\* between any two steps.
Paths == {"history", "totals", "stays"}
Writers == 1..MaxWriters
NoWriter == 0
Payloads == 1..MaxDocs
IdleWriter == [pc |-> "idle", path |-> None, data |-> 0]
EmptyFile == [kind |-> "empty"]
Partial(d) == [kind |-> "partial", doc |-> d]

Call(w, path, d) ==
    /\ ~crashed
    /\ writers[w].pc = "idle"
    /\ writers' = [writers EXCEPT ![w] = [pc |-> "waiting", path |-> path, data |-> d]]
    /\ UNCHANGED <<disk, tmp, lockHolder, crashed, saved>>
    /\ UNCHANGED <<memVars, persistent_stays, stayVars>>

\* Entering without waiting for the lock: C6 must tell it from Acquire.
AcquireUnguarded(w) ==
    /\ ~crashed
    /\ writers[w].pc = "waiting"
    /\ lockHolder' = w
    /\ writers' = [writers EXCEPT ![w].pc = "locked"]
    /\ UNCHANGED <<disk, tmp, crashed, saved>>
    /\ UNCHANGED <<memVars, persistent_stays, stayVars>>

\* async with _file_lock: entered only while no other call holds the lock.
Acquire(w) ==
    /\ ~crashed
    /\ writers[w].pc = "waiting"
    /\ lockHolder = NoWriter
    /\ lockHolder' = w
    /\ writers' = [writers EXCEPT ![w].pc = "locked"]
    /\ UNCHANGED <<disk, tmp, crashed, saved>>
    /\ UNCHANGED <<memVars, persistent_stays, stayVars>>

\* open(tmp, "w"): the temporary file exists and is empty.
OpenTmp(w) ==
    /\ ~crashed
    /\ writers[w].pc = "locked"
    /\ tmp' = [tmp EXCEPT ![writers[w].path] = EmptyFile]
    /\ writers' = [writers EXCEPT ![w].pc = "open"]
    /\ UNCHANGED <<disk, lockHolder, crashed, saved>>
    /\ UNCHANGED <<memVars, persistent_stays, stayVars>>

\* json.dump under way: part of the document has reached the file.
WriteChunk(w) ==
    /\ ~crashed
    /\ writers[w].pc = "open"
    /\ tmp' = [tmp EXCEPT ![writers[w].path] = Partial(writers[w].data)]
    /\ writers' = [writers EXCEPT ![w].pc = "writing"]
    /\ UNCHANGED <<disk, lockHolder, crashed, saved>>
    /\ UNCHANGED <<memVars, persistent_stays, stayVars>>

\* The with-block of the file ends: the whole document is in the file.
CloseTmp(w) ==
    /\ ~crashed
    /\ writers[w].pc \in {"open", "writing"}
    /\ tmp' = [tmp EXCEPT ![writers[w].path] = Doc(writers[w].data)]
    /\ writers' = [writers EXCEPT ![w].pc = "closed"]
    /\ UNCHANGED <<disk, lockHolder, crashed, saved>>
    /\ UNCHANGED <<memVars, persistent_stays, stayVars>>

\* os.replace(tmp, path): the target becomes what the temporary file holds.
Replace(w) ==
    /\ ~crashed
    /\ writers[w].pc = "closed"
    /\ disk' = [disk EXCEPT ![writers[w].path] = tmp[writers[w].path]]
    /\ tmp' = [tmp EXCEPT ![writers[w].path] = Absent]
    /\ saved' = [saved EXCEPT ![writers[w].path] = Doc(writers[w].data)]
    /\ writers' = [writers EXCEPT ![w].pc = "replaced"]
    /\ UNCHANGED <<lockHolder, crashed>>
    /\ UNCHANGED <<memVars, persistent_stays, stayVars>>

\* The async-with block ends: the lock is free again.
Release(w) ==
    /\ ~crashed
    /\ writers[w].pc = "replaced"
    /\ lockHolder' = NoWriter
    /\ writers' = [writers EXCEPT ![w] = IdleWriter]
    /\ UNCHANGED <<disk, tmp, crashed, saved>>
    /\ UNCHANGED <<memVars, persistent_stays, stayVars>>

\* open, json.dump or os.replace raises: the blocks unwind, the lock is
\* released, the temporary file stays as it is.
Raise(w) ==
    /\ ~crashed
    /\ writers[w].pc \in {"locked", "open", "writing", "closed"}
    /\ lockHolder' = NoWriter
    /\ writers' = [writers EXCEPT ![w] = IdleWriter]
    /\ UNCHANGED <<disk, tmp, crashed, saved>>
    /\ UNCHANGED <<memVars, persistent_stays, stayVars>>

\* The process is killed; the files stay as they are.
Crash ==
    /\ ~crashed
    /\ crashed' = TRUE
    /\ UNCHANGED <<disk, tmp, writers, lockHolder, saved>>
    /\ UNCHANGED <<memVars, persistent_stays, stayVars>>

\* The process starts again: no call in progress, the lock is new.
Restart ==
    /\ crashed
    /\ crashed' = FALSE
    /\ writers' = [w \in Writers |-> IdleWriter]
    /\ lockHolder' = NoWriter
    /\ UNCHANGED <<disk, tmp, saved>>
    /\ UNCHANGED <<memVars, persistent_stays, stayVars>>

InSection(w) == writers[w].pc \in {"locked", "open", "writing", "closed", "replaced"}

\* --------------------------------------------------------- stay worker
Guilds == 1..MaxGuilds
ChannelsOf(g) == {10 * g + k : k \in 1..MaxChannels}
AllChannels == UNION {ChannelsOf(g) : g \in Guilds}
NoChannel == 0
NoCall == [op |-> "none"]

\* A turn that never looks whether the channel still exists: C8 must tell it
\* from Decision.
DecisionNoChannelCheck(guild_id, channel_id, vis, ex, conn) ==
    IF guild_id \notin vis THEN "drop"
    ELSE IF conn[guild_id] = channel_id THEN "none"
    ELSE IF conn[guild_id] # NoChannel THEN "move"
    ELSE "connect"

\* What one turn of the for loop does with the directive guild_id ->
\* channel_id: "drop" it (guild or channel gone), "none" (already connected
\* there), "move" (connected elsewhere) or "connect".
Decision(guild_id, channel_id, vis, ex, conn) ==
    IF guild_id \notin vis THEN "drop"
    ELSE IF channel_id \notin (ex \cap ChannelsOf(guild_id)) THEN "drop"
    ELSE IF conn[guild_id] = channel_id THEN "none"
    ELSE IF conn[guild_id] # NoChannel THEN "move"
    ELSE "connect"

Found(guild_id, channel_id, did, stays) ==
    [guild |-> guild_id, channel |-> channel_id,
     vis |-> guild_id \in visible,
     ex |-> channel_id \in (existing \cap ChannelsOf(guild_id)),
     conn |-> vc[guild_id], did |-> did, stays |-> stays]

\* await bot.wait_until_ready()
WorkerStart ==
    /\ wpc = "start"
    /\ ready
    /\ wpc' = "pass"
    /\ UNCHANGED <<wsnap, wcall, passSnapshot, passLog, issued, passWrites>>
    /\ UNCHANGED <<cmdVars, memVars, persistent_stays, disk, storeVars, platformVars>>

\* for guild_id, channel_id in list(persistent_stays.items()):
PassBegin ==
    /\ wpc = "pass"
    /\ wpc' = "iter"
    /\ wsnap' = persistent_stays
    /\ passSnapshot' = persistent_stays
    /\ passLog' = <<>>
    /\ issued' = <<>>
    /\ passWrites' = <<>>
    /\ UNCHANGED wcall
    /\ UNCHANGED <<cmdVars, memVars, persistent_stays, disk, storeVars, platformVars>>

\* Guild or channel gone: pop the directive and call safe_write_json.
DropDirective ==
    /\ wpc = "iter"
    /\ wsnap # <<>>
    /\ LET g == wsnap[1][1]
           c == wsnap[1][2]
       IN  /\ Decision(g, c, visible, existing, vc) = "drop"
           /\ persistent_stays' = DictPop(persistent_stays, g)
           /\ wcall' = [op |-> "write", doc |-> StaysDoc(persistent_stays')]
           /\ passWrites' = Append(passWrites, StaysDoc(persistent_stays'))
           /\ passLog' = Append(passLog, Found(g, c, "drop", persistent_stays'))
    /\ wpc' = "write"
    /\ UNCHANGED <<wsnap, passSnapshot, issued>>
    /\ UNCHANGED <<cmdVars, memVars, disk, storeVars, platformVars>>

\* Already connected to the channel: continue.
AlreadyConnected ==
    /\ wpc = "iter"
    /\ wsnap # <<>>
    /\ LET g == wsnap[1][1]
           c == wsnap[1][2]
       IN  /\ Decision(g, c, visible, existing, vc) = "none"
           /\ passLog' = Append(passLog, Found(g, c, "none", persistent_stays))
    /\ wsnap' = Tail(wsnap)
    /\ UNCHANGED <<wpc, wcall, passSnapshot, issued, passWrites>>
    /\ UNCHANGED <<cmdVars, memVars, persistent_stays, disk, storeVars, platformVars>>

\* vc.move_to(channel) or channel.connect(reconnect=True) is called.
IssueCall ==
    /\ wpc = "iter"
    /\ wsnap # <<>>
    /\ LET g == wsnap[1][1]
           c == wsnap[1][2]
           did == Decision(g, c, visible, existing, vc)
       IN  /\ did \in {"move", "connect"}
           /\ wcall' = [op |-> did, guild |-> g, channel |-> c]
           /\ issued' = Append(issued, [op |-> did, guild |-> g, channel |-> c])
           /\ passLog' = Append(passLog, Found(g, c, did, persistent_stays))
    /\ wpc' = "act"
    /\ UNCHANGED <<wsnap, passSnapshot, passWrites>>
    /\ UNCHANGED <<cmdVars, memVars, persistent_stays, disk, storeVars, platformVars>>

\* A call whose success leaves the voice client where it was: C20 must tell
\* it from CallReturns.
CallNeverConnects(ok) ==
    /\ wpc = "act"
    /\ ok => (wcall.guild \in visible /\ wcall.channel \in existing)
    /\ wpc' = "iter"
    /\ wsnap' = Tail(wsnap)
    /\ wcall' = NoCall
    /\ UNCHANGED <<passSnapshot, passLog, issued, passWrites>>
    /\ UNCHANGED <<cmdVars, memVars, persistent_stays, disk, storeVars,
                   visible, existing, vc>>

\* The move or connect returns (ok) or raises; either way the loop goes on.
CallReturns(ok) ==
    /\ wpc = "act"
    /\ ok => (wcall.guild \in visible /\ wcall.channel \in existing)
    /\ vc' = IF ok THEN [vc EXCEPT ![wcall.guild] = wcall.channel] ELSE vc
    /\ wpc' = "iter"
    /\ wsnap' = Tail(wsnap)
    /\ wcall' = NoCall
    /\ UNCHANGED <<passSnapshot, passLog, issued, passWrites>>
    /\ UNCHANGED <<cmdVars, memVars, persistent_stays, disk, storeVars, visible, existing>>

\* safe_write_json returns (continue) or raises (out of the for loop, into
\* the handler of the while body).
WriteReturns(ok) ==
    /\ wpc = "write"
    /\ disk' = [disk EXCEPT !.stays = WriteOutcome(@, wcall.doc, ok)]
    /\ wpc' = IF ok THEN "iter" ELSE "backoff"
    /\ wsnap' = IF ok THEN Tail(wsnap) ELSE wsnap
    /\ wcall' = NoCall
    /\ UNCHANGED <<passSnapshot, passLog, issued, passWrites>>
    /\ UNCHANGED <<cmdVars, memVars, persistent_stays, storeVars, platformVars>>

\* The for loop is over: await asyncio.sleep(STAY_CHECK_INTERVAL).
PassEnd ==
    /\ wpc = "iter"
    /\ wsnap = <<>>
    /\ wpc' = "sleep"
    /\ UNCHANGED <<wsnap, wcall, passSnapshot, passLog, issued, passWrites>>
    /\ UNCHANGED <<cmdVars, memVars, persistent_stays, disk, storeVars, platformVars>>

\* The sleep ends: next turn of while True.
SleepEnds ==
    /\ wpc = "sleep"
    /\ wpc' = "pass"
    /\ UNCHANGED <<wsnap, wcall, passSnapshot, passLog, issued, passWrites>>
    /\ UNCHANGED <<cmdVars, memVars, persistent_stays, disk, storeVars, platformVars>>

\* A handler that leaves the while loop: C10 must tell it from BackoffEnds.
BackoffStops ==
    /\ wpc = "backoff"
    /\ wpc' = "stopped"
    /\ UNCHANGED <<wsnap, wcall, passSnapshot, passLog, issued, passWrites>>
    /\ UNCHANGED <<cmdVars, memVars, persistent_stays, disk, storeVars, platformVars>>

\* except Exception: ... await asyncio.sleep(10), then the next turn.
BackoffEnds ==
    /\ wpc = "backoff"
    /\ wpc' = "pass"
    /\ UNCHANGED <<wsnap, wcall, passSnapshot, passLog, issued, passWrites>>
    /\ UNCHANGED <<cmdVars, memVars, persistent_stays, disk, storeVars, platformVars>>

WorkerStep ==
    \/ WorkerStart
    \/ PassBegin
    \/ DropDirective
    \/ AlreadyConnected
    \/ IssueCall
    \/ \E ok \in BOOLEAN : CallReturns(ok)
    \/ \E ok \in BOOLEAN : WriteReturns(ok)
    \/ PassEnd
    \/ SleepEnds
    \/ BackoffEnds

\* The platform: the bot is removed from a guild, a channel is deleted, the
\* voice connection of a guild is lost.
GuildRemoved(g) ==
    /\ g \in visible
    /\ visible' = visible \ {g}
    /\ vc' = [vc EXCEPT ![g] = NoChannel]
    /\ UNCHANGED <<existing, workerVars>>
    /\ UNCHANGED <<cmdVars, memVars, persistent_stays, disk, storeVars>>

ChannelDeleted(c) ==
    /\ c \in existing
    /\ existing' = existing \ {c}
    /\ vc' = [g \in Guilds |-> IF vc[g] = c THEN NoChannel ELSE vc[g]]
    /\ UNCHANGED <<visible, workerVars>>
    /\ UNCHANGED <<cmdVars, memVars, persistent_stays, disk, storeVars>>

ConnectionLost(g) ==
    /\ vc[g] # NoChannel
    /\ vc' = [vc EXCEPT ![g] = NoChannel]
    /\ UNCHANGED <<visible, existing, workerVars>>
    /\ UNCHANGED <<cmdVars, memVars, persistent_stays, disk, storeVars>>

\* ------------------------------------------------------- stay commands
\* stayvc, setstayvc and unstayvc: the directive changes first, then the
\* stays document is written (the command is suspended), then the voice
\* client of the guild is looked up and the move, connect or disconnect is
\* awaited.  Every failure is swallowed or answered with a message.
NoCmd == [pc |-> "idle"]

StartSet(name, g, c) ==
    /\ persistent_stays' = DictSet(persistent_stays, g, c)
    /\ cmd' = [pc |-> "write", name |-> name, op |-> "set", guild |-> g,
               channel |-> c, doc |-> StaysDoc(persistent_stays'),
               call |-> "none"]
    /\ ncmd' = ncmd + 1
    /\ UNCHANGED <<clock, MAX_HISTORY, ready, chan, voice_history, user_totals,
                   user_sessions, sent, refStart, refTotal, evlog>>
    /\ UNCHANGED <<disk, storeVars, platformVars, workerVars>>

\* stayvc: the channel is the one the author is in; without one the
\* command answers and does nothing else.
stayvc_cmd(g, authorChannel) ==
    /\ cmd = NoCmd
    /\ ncmd < MaxCmds
    /\ g \in visible
    /\ IF authorChannel = NoChannel
       THEN /\ sent' = [cmd |-> "stayvc", text |-> "You must be in a voice channel."]
            /\ ncmd' = ncmd + 1
            /\ UNCHANGED <<clock, MAX_HISTORY, ready, chan, voice_history,
                           user_totals, user_sessions, refStart, refTotal, evlog>>
            /\ UNCHANGED <<cmd, persistent_stays, disk, storeVars,
                           platformVars, workerVars>>
       ELSE StartSet("stayvc", g, authorChannel)

\* setstayvc: the channel argument was resolved to a voice channel of the
\* guild by the converter.
setstayvc_cmd(g, c) ==
    /\ cmd = NoCmd
    /\ ncmd < MaxCmds
    /\ g \in visible
    /\ c \in existing \cap ChannelsOf(g)
    /\ StartSet("setstayvc", g, c)

unstayvc_cmd(g) ==
    /\ cmd = NoCmd
    /\ ncmd < MaxCmds
    /\ g \in visible
    /\ persistent_stays' = DictPop(persistent_stays, g)
    /\ cmd' = [pc |-> "write", name |-> "unstayvc", op |-> "clear", guild |-> g,
               channel |-> NoChannel, doc |-> StaysDoc(persistent_stays'),
               call |-> "none"]
    /\ ncmd' = ncmd + 1
    /\ UNCHANGED <<clock, MAX_HISTORY, ready, chan, voice_history, user_totals,
                   user_sessions, sent, refStart, refTotal, evlog>>
    /\ UNCHANGED <<disk, storeVars, platformVars, workerVars>>

\* safe_write_json returns or raises (except Exception: pass); then the
\* voice client of the guild is looked up.
CmdWriteReturns(ok) ==
    /\ cmd.pc = "write"
    /\ disk' = [disk EXCEPT !.stays = WriteOutcome(@, cmd.doc, ok)]
    /\ LET connected == vc[cmd.guild] # NoChannel
       IN  IF cmd.op = "set"
           THEN /\ cmd' = [cmd EXCEPT !.pc = "call",
                             !.call = IF connected THEN "move" ELSE "connect"]
                /\ UNCHANGED sent
           ELSE IF connected
           THEN /\ cmd' = [cmd EXCEPT !.pc = "call", !.call = "disconnect"]
                /\ UNCHANGED sent
           ELSE /\ cmd' = NoCmd
                /\ sent' = [cmd |-> cmd.name, guild |-> cmd.guild,
                            channel |-> cmd.channel, text |-> "removed"]
    /\ UNCHANGED <<clock, MAX_HISTORY, ready, chan, voice_history, user_totals,
                   user_sessions, refStart, refTotal, evlog>>
    /\ UNCHANGED <<persistent_stays, ncmd, storeVars, platformVars, workerVars>>

\* A command that takes its directive back when the call fails: C11 must
\* tell it from CmdCallReturns.
CmdCallUndoes(ok) ==
    /\ cmd.pc = "call"
    /\ (ok /\ cmd.op = "set")
         => (cmd.guild \in visible /\ cmd.channel \in existing)
    /\ vc' = IF ~ok THEN vc
             ELSE [vc EXCEPT ![cmd.guild] =
                      IF cmd.op = "set" THEN cmd.channel ELSE NoChannel]
    /\ persistent_stays' = IF ok THEN persistent_stays
                           ELSE DictPop(persistent_stays, cmd.guild)
    /\ sent' = [cmd |-> cmd.name, guild |-> cmd.guild, channel |-> cmd.channel,
                text |-> IF cmd.op = "clear" THEN "removed"
                         ELSE IF ok THEN "ok" ELSE "failed to join"]
    /\ cmd' = NoCmd
    /\ UNCHANGED <<clock, MAX_HISTORY, ready, chan, voice_history, user_totals,
                   user_sessions, refStart, refTotal, evlog>>
    /\ UNCHANGED <<disk, ncmd, storeVars, visible, existing, workerVars>>

\* The move, connect or disconnect returns or raises; the command answers
\* either way.
CmdCallReturns(ok) ==
    /\ cmd.pc = "call"
    /\ (ok /\ cmd.op = "set")
         => (cmd.guild \in visible /\ cmd.channel \in existing)
    /\ vc' = IF ~ok THEN vc
             ELSE [vc EXCEPT ![cmd.guild] =
                      IF cmd.op = "set" THEN cmd.channel ELSE NoChannel]
    /\ sent' = [cmd |-> cmd.name, guild |-> cmd.guild, channel |-> cmd.channel,
                text |-> IF cmd.op = "clear" THEN "removed"
                         ELSE IF ok THEN "ok" ELSE "failed to join"]
    /\ cmd' = NoCmd
    /\ UNCHANGED <<clock, MAX_HISTORY, ready, chan, voice_history, user_totals,
                   user_sessions, refStart, refTotal, evlog>>
    /\ UNCHANGED <<persistent_stays, disk, ncmd, storeVars, visible, existing,
                   workerVars>>

CommandStep ==
    \/ \E g \in Guilds : \E c \in ChannelsOf(g) \cup {NoChannel} : stayvc_cmd(g, c)
    \/ \E g \in Guilds : \E c \in ChannelsOf(g) : setstayvc_cmd(g, c)
    \/ \E g \in Guilds : unstayvc_cmd(g)
    \/ \E ok \in BOOLEAN : CmdWriteReturns(ok)
    \/ \E ok \in BOOLEAN : CmdCallReturns(ok)


\* --------------------------------------------------- ledger specification
InitMemory ==
    /\ voice_history = <<>>
    /\ user_totals = EmptyDict
    /\ user_sessions = EmptyDict
    /\ persistent_stays = EmptyDict
    /\ ready = FALSE
    /\ sent = NoMessage

InitGhost ==
    /\ refStart = [u \in Users |-> NoTs]
    /\ refTotal = [u \in Users |-> 0]
    /\ evlog = <<>>

NoFiles == [history |-> Absent, totals |-> Absent, stays |-> Absent]

\* No write in progress, no worker running, nothing connected.
InitStoreIdle ==
    /\ tmp = NoFiles
    /\ writers = [w \in Writers |-> IdleWriter]
    /\ lockHolder = NoWriter
    /\ crashed = FALSE
    /\ saved = disk

InitWorkerIdle ==
    /\ wpc = "start"
    /\ wsnap = <<>>
    /\ wcall = NoCall
    /\ passSnapshot = <<>>
    /\ passLog = <<>>
    /\ issued = <<>>
    /\ passWrites = <<>>
    /\ cmd = NoCmd
    /\ ncmd = 0

InitStayIdle ==
    /\ visible = Guilds
    /\ existing = AllChannels
    /\ vc = [g \in Guilds |-> NoChannel]
    /\ InitWorkerIdle

Init ==
    /\ InitMemory
    /\ InitStayIdle
    /\ InitGhost
    /\ clock = 0
    /\ MAX_HISTORY \in 0..MaxHistCfg
    /\ chan \in [Users -> Channels \cup {None}]
    /\ disk = NoFiles
    /\ InitStoreIdle

Next ==
    \/ \E u \in Users, c \in Channels \cup {None} :
          \E okH, okT, okS \in BOOLEAN : VoiceStateUpdate(u, c, okH, okT, okS)
    \/ OnReady
    \/ Tick(Times)

Spec == Init /\ [][Next]_vars

\* The ledger across restarts of the process, every write succeeding.  The
\* clock starts after the epoch and nobody is in a channel.
InitRestart ==
    /\ InitMemory
    /\ InitStayIdle
    /\ InitGhost
    /\ clock = 1
    /\ MAX_HISTORY = DefaultMaxHistory
    /\ chan = [u \in Users |-> None]
    /\ disk = NoFiles
    /\ InitStoreIdle

NextRestart ==
    \/ \E u \in Users, c \in Channels \cup {None} :
          VoiceStateUpdate(u, c, TRUE, TRUE, TRUE)
    \/ OnReady
    \/ ProcessRestart
    \/ Tick(RestartTimes)

SpecRestart == InitRestart /\ [][NextRestart]_vars

\* The ledger with writes that may fail, over whole seconds after the epoch.
InitPersist ==
    /\ InitMemory
    /\ InitStayIdle
    /\ InitGhost
    /\ clock = 1
    /\ MAX_HISTORY = DefaultMaxHistory
    /\ chan \in [Users -> Channels \cup {None}]
    /\ disk = NoFiles
    /\ InitStoreIdle

NextPersist ==
    \/ \E u \in Users, c \in Channels \cup {None} :
          \E okH, okT, okS \in BOOLEAN : VoiceStateUpdate(u, c, okH, okT, okS)
    \/ OnReady
    \/ Tick(PersistTimes)

SpecPersist == InitPersist /\ [][NextPersist]_vars

\* The ledger with the notifications that are no transition: bots, and
\* changes within one channel.
InitNotice ==
    /\ InitMemory
    /\ InitStayIdle
    /\ InitGhost
    /\ clock = 0
    /\ MAX_HISTORY = DefaultMaxHistory
    /\ chan \in [Users -> Channels \cup {None}]
    /\ disk = NoFiles
    /\ InitStoreIdle

NextNotice ==
    \/ \E u \in Users, c \in Channels \cup {None} :
          VoiceStateUpdate(u, c, TRUE, TRUE, TRUE)
    \/ \E u \in Users : VoiceStateNotice(u, chan[u], chan[u])
    \/ \E b, a \in Channels \cup {None} : VoiceStateNotice(BotUser, b, a)
    \/ OnReady
    \/ Tick(Times)

SpecNotice == InitNotice /\ [][NextNotice]_vars

\* The scenario of one user joining, moving and leaving at 0 s, 10 s, 25 s.
InitScenario ==
    /\ InitMemory
    /\ InitStayIdle
    /\ InitGhost
    /\ clock = 0
    /\ MAX_HISTORY = DefaultMaxHistory
    /\ chan = [u \in Users |-> None]
    /\ disk = NoFiles
    /\ InitStoreIdle

NextScenario ==
    \/ \E c \in Channels \cup {None} :
          \E okH, okT, okS \in BOOLEAN : VoiceStateUpdate(1, c, okH, okT, okS)
    \/ Tick(ScenarioTimes)

SpecScenario == InitScenario /\ [][NextScenario]_vars

\* The queries, over documents left on disk by earlier runs.
TotalsABC == <<<<Str(1), 100>>, <<Str(2), 300>>, <<Str(3), 300>>>>
TotalsMany == [i \in 1..(LeaderboardMax + 1) |-> <<Str(i), 100 * (i % 3)>>]
DiskImages ==
    { NoFiles,
      [history |-> Corrupt, totals |-> Corrupt, stays |-> Corrupt],
      [history |-> Doc(<<LogLine(0, "JOIN", 1, None, "X", NoDur)>>),
       totals |-> Doc(TotalsABC), stays |-> Doc(EmptyDict)],
      [history |-> Absent, totals |-> Doc(TotalsMany), stays |-> Absent] }

InitQuery ==
    /\ InitMemory
    /\ InitStayIdle
    /\ InitGhost
    /\ clock = 0
    /\ MAX_HISTORY = DefaultMaxHistory
    /\ chan \in [Users -> {None, "X"}]
    /\ disk \in DiskImages
    /\ InitStoreIdle

NextQuery ==
    \/ \E u \in Users :
          chan[u] = None /\ VoiceStateUpdate(u, "Y", TRUE, TRUE, TRUE)
    \/ OnReady
    \/ Tick(Times)
    \/ \E u \in Users : vcstats_cmd(u)
    \/ \E top \in TopInputs : vcleaderboard_cmd(top)

SpecQuery == InitQuery /\ [][NextQuery]_vars

\* The durable store alone: concurrent saves, failures, kills and restarts.
\* Payload 0 is what an earlier run saved.  The three documents are written
\* alike; two of them are enough for calls on the same and on different
\* paths.
OldFiles == [p \in Paths |-> Doc(0)]
StorePaths == {"totals", "stays"}

InitStore ==
    /\ InitMemory
    /\ InitGhost
    /\ InitStayIdle
    /\ clock = 0
    /\ MAX_HISTORY = DefaultMaxHistory
    /\ chan = [u \in Users |-> None]
    /\ disk \in {NoFiles, OldFiles}
    /\ InitStoreIdle

NextStore ==
    \/ \E w \in Writers, p \in StorePaths, d \in Payloads : Call(w, p, d)
    \/ \E w \in Writers : Acquire(w)
    \/ \E w \in Writers : OpenTmp(w)
    \/ \E w \in Writers : WriteChunk(w)
    \/ \E w \in Writers : CloseTmp(w)
    \/ \E w \in Writers : Replace(w)
    \/ \E w \in Writers : Release(w)
    \/ \E w \in Writers : Raise(w)
    \/ Crash
    \/ Restart

SpecStore == InitStore /\ [][NextStore]_vars

\* The stay worker, over the directives an earlier run or command left.
StayDicts ==
    {d \in UNION {[1..n -> Guilds \X AllChannels] : n \in 0..MaxGuilds} :
        /\ \A i, j \in DOMAIN d : i # j => d[i][1] # d[j][1]
        /\ \A i \in DOMAIN d : d[i][2] \in ChannelsOf(d[i][1])}

InitStay ==
    /\ voice_history = <<>>
    /\ user_totals = EmptyDict
    /\ user_sessions = EmptyDict
    /\ sent = NoMessage
    /\ ready = TRUE
    /\ InitGhost
    /\ clock = 0
    /\ MAX_HISTORY = DefaultMaxHistory
    /\ chan = [u \in Users |-> None]
    /\ persistent_stays \in StayDicts
    /\ disk = [history |-> Absent, totals |-> Absent,
               stays |-> Doc(StaysDoc(persistent_stays))]
    /\ InitStoreIdle
    /\ visible = Guilds
    /\ existing = AllChannels
    /\ vc \in [Guilds -> {NoChannel} \cup AllChannels]
    /\ \A g \in Guilds : vc[g] \in {NoChannel} \cup ChannelsOf(g)
    /\ InitWorkerIdle

NextStay ==
    \/ WorkerStep
    \/ \E g \in Guilds : GuildRemoved(g)
    \/ \E c \in AllChannels : ChannelDeleted(c)
    \/ \E g \in Guilds : ConnectionLost(g)

SpecStay == InitStay /\ [][NextStay]_vars

\* The event loop runs the worker whenever it can take a step: a sleep
\* ends, an awaited call returns or raises.
SpecStayFair == SpecStay /\ WF_vars(WorkerStep)

\* In addition, the connect or move calls for a guild do not fail forever.
SpecStayConverge ==
    /\ SpecStay
    /\ WF_vars(WorkerStep)
    /\ \A g \in Guilds : SF_vars(CallReturns(TRUE) /\ wcall.guild = g)

\* The stay worker together with the stay commands of administrators.  All
\* run on one event loop: a command or a platform event is handled only
\* while the worker is at an await (the start, a connect or move, a
\* document write, a sleep), never between the steps of a pass that follow
\* each other without one.
WorkerAwaits == wpc \in {"start", "act", "write", "sleep", "backoff"}

InitCmd ==
    /\ InitStay
    /\ \A g \in Guilds : vc[g] = NoChannel

NextCmd ==
    \/ WorkerStep
    \/ WorkerAwaits /\ CommandStep
    \/ WorkerAwaits /\ \E c \in AllChannels : ChannelDeleted(c)

SpecCmd == InitCmd /\ [][NextCmd]_vars

\* ================================================================ claims
IsEventStep == evlog' # evlog /\ sent'.cmd = "log"
IsReadyStep == evlog' # evlog /\ sent'.cmd = "started"
Touched(u) == \E i \in 1..Len(evlog) : evlog[i].who = u

\* C1: after any sequence of JOIN / LEAVE / MOVE events of a user, the user's
\* total equals the sum of the durations of the sessions closed so far (on
\* top of what was loaded), and a session is open exactly when the last
\* transition left the user in a channel, started at the last JOIN or MOVE.
C1_TotalsAreClosedSessions ==
    \A u \in Users :
        /\ DictGet(user_totals, Str(u), 0) = refTotal[u]
        /\ DictGet(user_sessions, u, NoTs) = refStart[u]
        /\ Touched(u) => (DictHas(user_sessions, u) <=> chan[u] # None)

\* C2: join X at 0 s, move to Y at 10 s, leave at 25 s: the history is JOIN,
\* MOVE with a 10 s duration, LEAVE with a 15 s duration; the total is 25 and
\* no session stays open.
C2_Scenario ==
    evlog = << Event(1, None, "X", 0), Event(1, "X", "Y", 10 * TicksPerSec),
               Event(1, "Y", None, 25 * TicksPerSec) >>
    => /\ Len(voice_history) = 3
       /\ voice_history[1].kind = "JOIN"
       /\ voice_history[2].kind = "MOVE" /\ voice_history[2].dur = fmt_duration(10)
       /\ voice_history[3].kind = "LEAVE" /\ voice_history[3].dur = fmt_duration(15)
       /\ DictGet(user_totals, Str(1), 0) = 25
       /\ ~DictHas(user_sessions, 1)

\* C3: after every presence event that appends a line, the history is no
\* longer than MAX_HISTORY and is the most recent MAX_HISTORY lines, in order.
C3_HistoryBounded ==
    [][IsEventStep =>
        LET full == Append(voice_history, sent'.line)
            keep == IF Len(full) > MAX_HISTORY THEN MAX_HISTORY ELSE Len(full)
        IN  /\ Len(voice_history') <= MAX_HISTORY
            /\ voice_history' = SubSeq(full, Len(full) - keep + 1, Len(full))]_vars

\* C4 as stated: with an open session and no change to the user's session
\* or stored total, the reported total is strictly larger at any later clock
\* value; with no open session it is the stored total.
SameLedgerEntry(u) ==
    /\ DictGet(user_sessions', u, NoTs) = DictGet(user_sessions, u, NoTs)
    /\ DictGet(user_totals', Str(u), 0) = DictGet(user_totals, Str(u), 0)

C4_StrictlyIncreasing ==
    [][\A u \in Users :
        (DictHas(user_sessions, u) /\ SameLedgerEntry(u) /\ clock' > clock)
        => StatsTotal(u, user_totals', user_sessions', clock')
              > StatsTotal(u, user_totals, user_sessions, clock)]_vars

\* C4 amended: the reported total is in whole seconds; it never decreases as
\* the clock advances, it is strictly larger once the clock is a whole second
\* further, and the stats command reports the stored total plus the whole
\* seconds elapsed since the session start (the stored total alone when no
\* session is open).
C4_IncreasingBySeconds ==
    [][/\ \A u \in Users :
            (DictHas(user_sessions, u) /\ SameLedgerEntry(u) /\ clock' > clock)
            => LET old == StatsTotal(u, user_totals, user_sessions, clock)
                   new == StatsTotal(u, user_totals', user_sessions', clock')
               IN  /\ new >= old
                   /\ clock' - clock >= TicksPerSec => new > old
       /\ sent'.cmd = "vcstats" =>
            LET u == sent'.member
                stored == DictGet(user_totals, Str(u), 0)
            IN  sent'.text =
                  fmt_duration(IF DictHas(user_sessions, u)
                               THEN stored + (clock - DictGet(user_sessions, u, NoTs))
                                               \div TicksPerSec
                               ELSE stored)]_vars

C4_Witness ==
    /\ sent.cmd = "vcstats"
    /\ DictHas(user_sessions, sent.member)
    /\ clock - DictGet(user_sessions, sent.member, NoTs) >= TicksPerSec
    /\ DictGet(user_totals, Str(sent.member), 0) > 0
    /\ sent.text = fmt_duration(DictGet(user_totals, Str(sent.member), 0) + 1)

\* C5: the leaderboard holds min(clamp(top, 1, 25), number of users known)
\* entries; each carries the user's stored total plus the elapsed time of an
\* open session; values never increase down the list; no omitted user has a
\* larger value; equal values keep the insertion order of the combined map
\* (keys of the totals first, then users with a session only).  Totals
\* {1: 100, 2: 300, 3: 300} with top = 2 give users 2 and 3, in that order.
KnownUsers == {IntOf(k) : k \in DictKeys(user_totals)} \cup DictKeys(user_sessions)
SessionOnly == SelectSeq(user_sessions, LAMBDA e : ~DictHas(user_totals, Str(e[1])))
MapPos(u) ==
    IF DictHas(user_totals, Str(u)) THEN DictIdx(user_totals, Str(u))
    ELSE Len(user_totals) + DictIdx(SessionOnly, u)
LiveTotal(u) ==
    DictGet(user_totals, Str(u), 0)
      + (IF DictHas(user_sessions, u)
         THEN (clock - DictGet(user_sessions, u, NoTs)) \div TicksPerSec ELSE 0)

C5_Leaderboard ==
    [][sent'.cmd = "vcleaderboard" =>
        LET lines == sent'.lines
            top == sent'.top
            clamped == IF top < 1 THEN 1 ELSE IF top > 25 THEN 25 ELSE top
            known == KnownUsers
            n == Cardinality(known)
            shown == {lines[i].uid : i \in 1..Len(lines)}
            val == [u \in known |-> LiveTotal(u)]
            pos == [u \in known |-> MapPos(u)]
            Before(u, v) == val[u] > val[v] \/ (val[u] = val[v] /\ pos[u] < pos[v])
        IN  /\ Len(lines) = (IF clamped < n THEN clamped ELSE n)
            /\ Cardinality(shown) = Len(lines)
            /\ shown \subseteq known
            /\ \A i \in 1..Len(lines) :
                  /\ lines[i].rank = i
                  /\ lines[i].secs = val[lines[i].uid]
                  /\ lines[i].text = fmt_duration(val[lines[i].uid])
                  /\ lines[i].live = DictHas(user_sessions, lines[i].uid)
            /\ \A i \in 1..(Len(lines) - 1) : Before(lines[i].uid, lines[i + 1].uid)
            /\ \A u \in known \ shown : Before(lines[Len(lines)].uid, u)
            /\ (user_totals = TotalsABC /\ user_sessions = EmptyDict /\ top = 2)
                  => [i \in 1..Len(lines) |-> lines[i].uid] = <<2, 3>>]_vars

C5_Witness ==
    /\ sent.cmd = "vcleaderboard"
    /\ sent.top = 2
    /\ user_totals = TotalsABC
    /\ user_sessions = EmptyDict
    /\ Len(sent.lines) = 2
    /\ sent.lines[1].uid = 2 /\ sent.lines[2].uid = 3
    /\ sent.lines[1].secs = 300 /\ sent.lines[2].secs = 300

\* C7: on_ready gets each document as parsed when its file exists and
\* parses, and the default otherwise; with a corrupt totals file the totals
\* are the empty mapping and startup goes on (the bot is ready).
C7_LoadOrDefault ==
    [][IsReadyStep =>
        /\ user_totals' = (IF disk.totals.kind = "doc" THEN disk.totals.doc
                           ELSE EmptyDict)
        /\ voice_history' = (IF disk.history.kind = "doc" THEN disk.history.doc
                             ELSE <<>>)
        /\ disk.totals = Corrupt => user_totals' = EmptyDict
        /\ ready']_vars

C7_Witness ==
    /\ ready
    /\ disk.totals = Corrupt
    /\ user_totals = EmptyDict
    /\ sent.cmd = "started"

\* C6: whenever the process is killed, every document holds the complete
\* content saved last or the complete new one (never an empty or partial
\* file), and no two calls are between acquiring and releasing the lock.
C6_CrashSafeAndExclusive ==
    /\ \A p \in Paths :
          /\ disk[p].kind \in {"absent", "doc"}
          /\ disk[p] = saved[p]
    /\ \A w1, w2 \in Writers : (InSection(w1) /\ InSection(w2)) => w1 = w2

C6_Witness ==
    /\ crashed
    /\ \E w \in Writers :
          /\ writers[w].pc = "writing"
          /\ tmp[writers[w].path] = Partial(writers[w].data)
          /\ disk[writers[w].path] = Doc(0)

\* C8: a directive found with the guild visible, the channel existing and no
\* live connection gets exactly one connect toward its channel in that pass
\* and no other call; a directive whose channel is gone is removed from
\* persistent_stays, the updated document is handed to safe_write_json (and
\* is on disk when that write succeeds), and no call is issued for the guild.
CallsFor(g) == SelectSeq(issued, LAMBDA a : a.guild = g)

C8_PassFindings ==
    \A i \in 1..Len(passLog) :
        LET r == passLog[i]
        IN  /\ (r.vis /\ r.ex /\ r.conn = NoChannel)
                => CallsFor(r.guild) =
                     <<[op |-> "connect", guild |-> r.guild, channel |-> r.channel]>>
            /\ (r.vis /\ ~r.ex)
                => /\ CallsFor(r.guild) = <<>>
                   /\ ~DictHas(r.stays, r.guild)
                   /\ \E k \in 1..Len(passWrites) : passWrites[k] = StaysDoc(r.stays)

C9_OtherGuildsProcessed ==
    wpc \in {"sleep", "backoff"}
    => \A k \in 1..Len(passSnapshot) :
          \E i \in 1..Len(passLog) : passLog[i].guild = passSnapshot[k][1]

\* C10: the worker begins a pass again and again; a failure that leaves the
\* pass leads to the backoff sleep and from there to a new pass.
C10_WorkerNeverStops ==
    /\ []<><<PassBegin>>_vars
    /\ (wpc = "backoff") ~> (wpc = "pass")
    /\ [][(wpc = "write" /\ wpc' \notin {"write", "iter"}) => wpc' = "backoff"]_vars
    /\ [][(wpc = "backoff" /\ wpc' # "backoff") => wpc' = "pass"]_vars

C10_Witness ==
    /\ wpc = "backoff"
    /\ Len(passLog) < Len(passSnapshot)

\* C11: a stay command changes the directive first (set: G -> C present,
\* clear: no directive for G), then hands the updated stays document to
\* safe_write_json, then awaits a move (live connection) or connect, or a
\* disconnect when clearing while connected.  Whether the write or the call
\* fails or not, the later steps of the command leave persistent_stays as it
\* is and the command ends with its answer.
C11_StayCommands ==
    [][/\ (cmd = NoCmd /\ cmd' # NoCmd)
            => /\ cmd'.pc = "write"
               /\ cmd'.doc = StaysDoc(persistent_stays')
               /\ cmd'.op = "set"
                    => DictGet(persistent_stays', cmd'.guild, NoChannel) = cmd'.channel
               /\ cmd'.op = "clear" => ~DictHas(persistent_stays', cmd'.guild)
               /\ disk' = disk /\ vc' = vc
       /\ (cmd.pc = "write" /\ cmd' # cmd)
            => /\ persistent_stays' = persistent_stays
               /\ disk'.stays \in {disk.stays, Doc(cmd.doc)}
               /\ vc' = vc
               /\ IF cmd.op = "set"
                  THEN cmd'.pc = "call"
                       /\ cmd'.call = (IF vc[cmd.guild] # NoChannel
                                       THEN "move" ELSE "connect")
                  ELSE IF vc[cmd.guild] # NoChannel
                  THEN cmd'.pc = "call" /\ cmd'.call = "disconnect"
                  ELSE cmd' = NoCmd /\ sent'.cmd = "unstayvc"
       /\ (cmd.pc = "call" /\ cmd' # cmd)
            => /\ persistent_stays' = persistent_stays
               /\ cmd' = NoCmd
               /\ sent'.cmd = cmd.name
               /\ vc' \in {vc, [vc EXCEPT ![cmd.guild] = cmd.channel]}]_vars

C11_Witness ==
    /\ cmd = NoCmd
    /\ sent.cmd = "setstayvc"
    /\ sent.text = "failed to join"
    /\ DictGet(persistent_stays, sent.guild, NoChannel) = sent.channel
    /\ disk.stays # Doc(StaysDoc(persistent_stays))

\* C12: the credit the data model gives user u for the events of the log:
\* whole seconds of every session, a session being open from a JOIN, a MOVE
\* or an on_ready that finds the user connected, until the next LEAVE, MOVE
\* or stop of the process; the downtime is not credited.
RECURSIVE Credit(_, _, _, _, _, _)
Credit(u, log, i, inChan, start, total) ==
    IF i > Len(log) THEN [start |-> start, total |-> total]
    ELSE LET e == log[i]
             closed == IF start = NoTs THEN total
                       ELSE total + IntSeconds(e.at - start)
         IN  IF e.who = u
             THEN Credit(u, log, i + 1, e.dst # None,
                         IF e.dst # None THEN e.at ELSE NoTs, closed)
             ELSE IF e.who = 0 /\ e.src = "STOP"
             THEN Credit(u, log, i + 1, inChan, NoTs, closed)
             ELSE IF e.who = 0 /\ inChan /\ start = NoTs
             THEN Credit(u, log, i + 1, inChan, e.at, total)
             ELSE Credit(u, log, i + 1, inChan, start, total)

CreditNow(u) ==
    LET c == Credit(u, evlog, 1, FALSE, NoTs, 0)
    IN  c.total + (IF c.start = NoTs THEN 0 ELSE IntSeconds(clock - c.start))

\* u was connected when the process stopped, has had no presence event
\* since, and on_ready has run after the stop.
AcrossRestart(u) ==
    \E k \in 1..Len(evlog) :
        /\ evlog[k].who = 0 /\ evlog[k].src = "STOP"
        /\ \A j \in (k + 1)..Len(evlog) : evlog[j].who = 0 /\ evlog[j].src # "STOP"
        /\ k < Len(evlog)
        /\ \E j \in 1..(k - 1) :
              /\ evlog[j].who = u /\ evlog[j].dst # None
              /\ \A m \in (j + 1)..(k - 1) : evlog[m].who # u
        /\ chan[u] # None

\* C12: after a restart the live-adjusted total of a user connected across
\* it is all the time connected before the stop plus the time since the
\* restart.
C12_RestartKeepsTime ==
    \A u \in Users :
        (ready /\ AcrossRestart(u))
        => StatsTotal(u, user_totals, user_sessions, clock) = CreditNow(u)

\* C13: once on_ready has loaded the documents, every total in memory is a
\* non-negative integer and no step makes a user's total smaller.
C13_TotalsNeverDecrease ==
    [][ready =>
        \A u \in Users :
            /\ DictGet(user_totals', Str(u), 0) \in Nat
            /\ DictGet(user_totals', Str(u), 0) >= DictGet(user_totals, Str(u), 0)]_vars

\* C14: whatever the writes of a presence event do, the event's change is in
\* memory (session opened at the event time or closed, the closed session's
\* whole seconds added to the total, the line appended) and the handler ends
\* with its log line; a document whose write failed stays as it was (no
\* retry in the event); an event all of whose writes succeed leaves the
\* history and totals documents equal to the whole history and totals in
\* memory.
C14_FailedWriteIsNotFatal ==
    [][IsEventStep =>
        LET e == evlog'[Len(evlog')]
            start == DictGet(user_sessions, e.who, NoTs)
            old == DictGet(user_totals, Str(e.who), 0)
        IN  /\ DictHas(user_sessions', e.who) <=> e.dst # None
            /\ e.dst # None => DictGet(user_sessions', e.who, NoTs) = e.at
            /\ DictGet(user_totals', Str(e.who), 0) =
                 (IF e.src # None /\ start > 0
                  THEN old + (e.at - start) \div TicksPerSec ELSE old)
            /\ voice_history' = Append(voice_history, sent'.line)
            /\ \A p \in Paths :
                  disk'[p] \in {disk[p],
                                Doc(CASE p = "history" -> voice_history'
                                      [] p = "totals" -> user_totals'
                                      [] OTHER -> StaysDoc(persistent_stays'))}
            /\ sent'.warn => \E p \in Paths : disk'[p] = disk[p]
            /\ ~sent'.warn => /\ disk'.history = Doc(voice_history')
                              /\ disk'.totals = Doc(user_totals')]_vars

C14_Witness ==
    /\ sent.cmd = "log"
    /\ sent.warn
    /\ sent.line.kind = "LEAVE"
    /\ Len(voice_history) >= 2
    /\ DictGet(user_totals, Str(sent.line.who), 0) > 0
    /\ disk.totals # Doc(user_totals)
    /\ disk.history # Doc(voice_history)

\* C15: when a pass is over, every directive it started with whose guild is
\* visible and whose channel exists was examined once, with no call when the
\* live connection was on the channel, one move toward it when the
\* connection was elsewhere and one connect toward it when there was none;
\* no disconnect is issued, and no call for a guild without a directive at
\* the start of the pass.
TableHolds(r) ==
    CallsFor(r.guild) =
        (IF r.conn = r.channel THEN <<>>
         ELSE <<[op |-> IF r.conn = NoChannel THEN "connect" ELSE "move",
                 guild |-> r.guild, channel |-> r.channel]>>)

C15_DecisionTable ==
    wpc \in {"sleep", "backoff"}
    => /\ \A k \in 1..Len(passSnapshot) :
            LET g == passSnapshot[k][1]
                c == passSnapshot[k][2]
                recs == SelectSeq(passLog, LAMBDA r : r.guild = g)
            IN  (g \in visible /\ c \in existing)
                => /\ Len(recs) = 1
                   /\ recs[1].channel = c
                   /\ TableHolds(recs[1])
       /\ \A i \in 1..Len(issued) :
            /\ issued[i].op \in {"connect", "move"}
            /\ DictHas(passSnapshot, issued[i].guild)

\* C16: a notification from a bot, or with the same channel before and
\* after, changes neither the sessions, nor the totals, nor the history, and
\* no document is written.
IsNoticeStep ==
    /\ evlog' # evlog
    /\ LET e == evlog'[Len(evlog')]
       IN  e.who = BotUser \/ (e.who \in Users /\ e.src = e.dst)

C16_NoTransitionNoEffect ==
    [][IsNoticeStep =>
        /\ user_sessions' = user_sessions
        /\ user_totals' = user_totals
        /\ voice_history' = voice_history
        /\ disk' = disk
        /\ sent' = sent]_vars

C16_Witness ==
    /\ Len(evlog) = 3
    /\ evlog[2].who \in Users /\ evlog[2].src = evlog[2].dst /\ evlog[2].src # None
    /\ evlog[3].who = BotUser /\ evlog[3].src # evlog[3].dst
    /\ DictHas(user_sessions, evlog[2].who)
    /\ Len(voice_history) = 1
    /\ disk.history = Doc(voice_history)

\* C17: whenever the worker issues a connect or move for guild G toward
\* channel C, persistent_stays maps G to C at that moment.
C17_CallsFollowDirectives ==
    [][(wpc = "iter" /\ wpc' = "act")
        => DictGet(persistent_stays, wcall'.guild, NoChannel) = wcall'.channel]_vars

\* C18: the worker removes the entry of guild G only when G is not visible
\* or the channel G's directive names at that moment does not exist.
C18_RemovalOnlyWhenGone ==
    [][(wpc = "iter" /\ wpc' = "write")
        => LET g == passLog'[Len(passLog')].guild
           IN  DictHas(persistent_stays, g)
               => \/ g \notin visible
                  \/ DictGet(persistent_stays, g, NoChannel)
                        \notin (existing \cap ChannelsOf(g))]_vars

\* C19: what the documents held when the process started (`saved` keeps it
\* in the specifications without concurrent writers) is still in memory and
\* on disk once on_ready has run: every user's total entry, every history
\* line, every stay directive.
StillThere(old, mem, now) ==
    old.kind = "doc"
    => /\ now.kind = "doc"
       /\ \A i \in 1..Len(old.doc) :
             /\ \E j \in 1..Len(mem) : mem[j] = old.doc[i]
             /\ \E j \in 1..Len(now.doc) : now.doc[j] = old.doc[i]

C19_NoPersistedDataLost ==
    ready
    => /\ StillThere(saved.totals, user_totals, disk.totals)
       /\ StillThere(saved.history, voice_history, disk.history)
       /\ StillThere(saved.stays, StaysDoc(persistent_stays), disk.stays)

\* C20: if from some point on the directive of guild G is G -> C, G is
\* visible and C exists, then the live connection of G is on C again and
\* again (for good when nothing disconnects it); and the worker issues a
\* call for a guild only when its live connection is not on the channel.
DirectiveStands(g, c) ==
    /\ DictGet(persistent_stays, g, NoChannel) = c
    /\ g \in visible
    /\ c \in existing

C20_Converges ==
    /\ \A g \in Guilds : \A c \in ChannelsOf(g) :
          (<>[]DirectiveStands(g, c)) => []<>(vc[g] = c)
    /\ [][(wpc = "iter" /\ wpc' = "act")
            => vc[wcall'.guild] # wcall'.channel]_vars

C20_Witness ==
    /\ wpc = "sleep"
    /\ \E i \in 1..Len(passLog) :
          /\ passLog[i].did = "connect"
          /\ DirectiveStands(passLog[i].guild, passLog[i].channel)
          /\ vc[passLog[i].guild] = passLog[i].channel
====
